---- MODULE Spec2Model ----
(***************************************************************************)
(* Drive2Chat: the document-to-answer pipeline of src/app.py and its two   *)
(* front ends (the command-line loop of app.main and the Streamlit script  *)
(* src/streamlist.py).                                                     *)
(*                                                                         *)
(* The external services                                                   *)
(* (Drive, the embedding service, Qdrant, the generative model, the        *)
(* terminal) answer nondeterministically: each call either fails or        *)
(* returns one of a few values.                                            *)
(***************************************************************************)
EXTENDS Integers, Sequences, FiniteSets, TLC

VARIABLES
    frontend,       \* "cli" (app.main), "web" (streamlist.py), or "fn" (a function applied on its own)
    pc,             \* position of the running front end
    hashSeed,       \* the per-process seed of Python's str hash
    listing,        \* what the Drive account's files().list() returns
    drive_service,  \* main's local drive_service
    qdrant_client,  \* main's local qdrant_client
    session_state,  \* st.session_state: a function from the keys present to values
    gemini_configured, \* genai.configure(api_key=...) has been called
    clients,        \* number of QdrantClient(":memory:") instances created so far
    points,         \* the points of the collection of the newest QdrantClient, oldest first
    pass,           \* the running / last call of process_drive_files
    fileLog,        \* one record per loop iteration of the running process_drive_files
    upsertLog,      \* the upserts the newest client's store has accepted, over all passes
    lastQuery,      \* the question of the current loop iteration / script run
    lastInput,      \* what the last input() of main's loop produced
    page,           \* the widgets the last script run rendered
    trigger,        \* the interaction that started the running script run
    text,           \* the widget state of st.text_input
    fnIn,           \* arguments of the function applied on its own
    fnOut           \* its result

vars == <<frontend, pc, hashSeed, listing, drive_service, qdrant_client,
          session_state, gemini_configured, clients, points, pass, fileLog, upsertLog, lastQuery,
          lastInput, page, trigger, text, fnIn, fnOut>>

----------------------------------------------------------------------------
(* Bounds of the model *)

MaxFiles == 2        \* longest Drive listing
MaxPasses == 2       \* calls of process_drive_files in one behaviour
MaxTextLen == 4      \* longest text given to chunk_text on its own
MaxChunkSize == 3    \* largest max_chars given to chunk_text on its own
HashRange == 3       \* Python's hash yields a value in -HashRange..HashRange
ContextSlack == 1    \* contexts up to PROMPT_CONTEXT + ContextSlack characters
PointIdMod == 3      \* the modulus of the point id: 10**18 in the source, scaled to
                     \* the hash range so that the reduction still acts

(* Program constants *)

VECTOR_SIZE == 768
DEFAULT_MAX_CHARS == 30000
MIN_CONTENT == 20
SNIPPET == 3000
TOP_K == 3
PROMPT_CONTEXT == 8000

----------------------------------------------------------------------------
(* Text *)
(*                                                                         *)
(* A text (a Python str or bytes) is kept run-length encoded: a sequence   *)
(* of runs [c, n], n >= 1 copies of the character c, no two neighbouring   *)
(* runs of the same character.  Every text has exactly one such encoding,  *)
(* so equal texts are equal values.  Numeric vectors are kept the same     *)
(* way, c being the component.                                             *)

None == "None"

Min(a, b) == IF a <= b THEN a ELSE b

Run(c, n) == [c |-> c, n |-> n]

RECURSIVE Norm(_)
\* the encoding of the text a sequence of runs spells
Norm(t) ==
    IF t = <<>> THEN <<>>
    ELSE LET h == Head(t)
             r == Norm(Tail(t))
         IN  IF h.n = 0 THEN r
             ELSE IF r # <<>> /\ r[1].c = h.c
             THEN <<Run(h.c, h.n + r[1].n)>> \o Tail(r)
             ELSE <<h>> \o r

\* the text of a sequence of characters
Str(s) == Norm([i \in DOMAIN s |-> Run(s[i], 1)])

\* c * n
Rep(c, n) == Norm(<<Run(c, n)>>)

\* a + b
Cat(a, b) == Norm(a \o b)

RECURSIVE TLen(_)
\* len(t)
TLen(t) == IF t = <<>> THEN 0 ELSE Head(t).n + TLen(Tail(t))

RECURSIVE Take(_, _)
\* t[:k]
Take(t, k) ==
    IF t = <<>> \/ k <= 0 THEN <<>>
    ELSE IF Head(t).n <= k THEN <<Head(t)>> \o Take(Tail(t), k - Head(t).n)
    ELSE <<Run(Head(t).c, k)>>

RECURSIVE Drop(_, _)
\* t[k:]
Drop(t, k) ==
    IF t = <<>> THEN <<>>
    ELSE IF k <= 0 THEN t
    ELSE IF Head(t).n <= k THEN Drop(Tail(t), k - Head(t).n)
    ELSE <<Run(Head(t).c, Head(t).n - k)>> \o Tail(t)

\* Python's t[i:j] for 0 <= i <= j
Slice(t, i, j) == Drop(Take(t, j), i)

Whitespace == {" ", "\t", "\n", "\r"}

RECURSIVE LStrip(_)
LStrip(t) == IF t # <<>> /\ Head(t).c \in Whitespace THEN LStrip(Tail(t)) ELSE t

RECURSIVE RStrip(_)
RStrip(t) ==
    IF t # <<>> /\ t[Len(t)].c \in Whitespace
    THEN RStrip(SubSeq(t, 1, Len(t) - 1)) ELSE t

\* str.strip()
Strip(t) == RStrip(LStrip(t))

UpperLetters == <<"A","B","C","D","E","F","G","H","I","J","K","L","M",
                  "N","O","P","Q","R","S","T","U","V","W","X","Y","Z">>
LowerLetters == <<"a","b","c","d","e","f","g","h","i","j","k","l","m",
                  "n","o","p","q","r","s","t","u","v","w","x","y","z">>

LowerChar(c) ==
    IF \E k \in DOMAIN UpperLetters : UpperLetters[k] = c
    THEN LowerLetters[CHOOSE k \in DOMAIN UpperLetters : UpperLetters[k] = c]
    ELSE c

\* str.lower()
Lower(t) == Norm([i \in DOMAIN t |-> Run(LowerChar(t[i].c), t[i].n)])

\* a byte that is not valid UTF-8
BadByte == "\\xff"

IsValidRun(r) == r.c # BadByte

\* bytes.decode("utf-8", errors='ignore')
Decode(bytes) == Norm(SelectSeq(bytes, IsValidRun))

----------------------------------------------------------------------------
(* chunk_text *)

\* range(start, stop, step) for step > 0
RECURSIVE Range(_, _, _)
Range(start, stop, step) ==
    IF start >= stop THEN <<>>
    ELSE <<start>> \o Range(start + step, stop, step)

\* chunk_text stepping one character too far: a character is lost between chunks
chunk_text_gap(t, max_chars) ==
    LET r == Range(0, TLen(t), max_chars + 1)
    IN  [k \in DOMAIN r |-> Slice(t, r[k], r[k] + max_chars)]

chunk_text(t, max_chars) ==
    LET r == Range(0, TLen(t), max_chars)
    IN  [k \in DOMAIN r |-> Slice(t, r[k], r[k] + max_chars)]

RECURSIVE Concat(_)
\* "".join(ss)
Concat(ss) == IF ss = <<>> THEN <<>> ELSE Cat(Head(ss), Concat(Tail(ss)))

----------------------------------------------------------------------------
(* The Drive account: the files the model draws its listings from *)

T_DOC == "application/vnd.google-apps.document"
T_SHEET == "application/vnd.google-apps.spreadsheet"
T_SLIDES == "application/vnd.google-apps.presentation"
T_PDF == "application/pdf"
T_DOCX == "application/vnd.openxmlformats-officedocument.wordprocessingml.document"
T_TXT == "text/plain"
T_PNG == "image/png"

allowed_types == {T_DOC, T_SHEET, T_SLIDES, T_PDF, T_DOCX, T_TXT}

\* mime_type.startswith("application/vnd.google-apps"), over the types above
StartsWithGoogleApps(mime_type) == mime_type \in {T_DOC, T_SHEET, T_SLIDES}

\* named FALSE: the listing entry has no "name" key
DriveFiles == {
    [id |-> "f1", named |-> TRUE,  name |-> Str(<<"a">>), mimeType |-> T_DOC],
    [id |-> "f2", named |-> FALSE, name |-> <<>>,    mimeType |-> T_TXT],
    [id |-> "f3", named |-> TRUE,  name |-> Str(<<"c">>), mimeType |-> T_PDF],
    [id |-> "f4", named |-> TRUE,  name |-> Str(<<"d">>), mimeType |-> T_PNG],
    [id |-> "",   named |-> TRUE,  name |-> Str(<<"e">>), mimeType |-> T_TXT] }

\* the bytes Drive serves for a file (the text/plain export of a native
\* document, the raw bytes otherwise)
DriveBytes(file_id) ==
    CASE file_id = "f1" ->
            Cat(Str(<<" ">>), Cat(Rep("a", DEFAULT_MAX_CHARS + 1), Str(<<"\n">>)))
      [] file_id = "f2" ->
            Cat(Str(<<"\n", BadByte>>), Cat(Rep("b", MIN_CONTENT), Str(<<" ">>)))
      [] file_id = "f3" -> Cat(Str(<<" ", " ">>), Rep("c", MIN_CONTENT - 1))
      [] file_id = "f4" -> Rep("d", MIN_CONTENT + 5)
      [] OTHER -> Rep("e", MIN_CONTENT + 5)

RECURSIVE Arrangements(_, _)
\* the sequences of k distinct elements of S
Arrangements(S, k) ==
    IF k = 0 THEN {<<>>}
    ELSE UNION {{<<x>> \o r : r \in Arrangements(S \ {x}, k - 1)} : x \in S}

Listings == UNION {Arrangements(DriveFiles, k) : k \in 0..MaxFiles}

----------------------------------------------------------------------------
(* read_file *)

\* ok: the download succeeded
read_file(file_id, mime_type, ok) ==
    LET request == IF StartsWithGoogleApps(mime_type) THEN "export_media" ELSE "get_media"
    IN  IF ok
        THEN [request |-> request, content |-> Strip(Decode(DriveBytes(file_id)))]
        ELSE [request |-> request, content |-> <<>>]

----------------------------------------------------------------------------
(* get_embedding *)

\* np.zeros(VECTOR_SIZE)
Zeros == Rep(0, VECTOR_SIZE)

\* what the embedding service answers for a text: a nonzero vector
ServiceVector(t) == Cat(Rep(1 + (TLen(t) % 5), 1), Rep(1, VECTOR_SIZE - 1))

\* ok: genai.embed_content returned
get_embedding(t, ok) == IF ok THEN ServiceVector(t) ELSE Zeros

\* np.all(v == 0)
AllZero(v) == \A i \in DOMAIN v : v[i].c = 0

RECURSIVE VecAdd(_, _)
\* a + b, component by component
VecAdd(a, b) ==
    IF a = <<>> \/ b = <<>> THEN <<>>
    ELSE LET k == Min(Head(a).n, Head(b).n)
         IN  Cat(Rep(Head(a).c + Head(b).c, k), VecAdd(Drop(a, k), Drop(b, k)))

RECURSIVE VecSum(_)
VecSum(vs) == IF Len(vs) = 1 THEN vs[1] ELSE VecAdd(vs[1], VecSum(Tail(vs)))

\* np.mean(embeddings, axis=0), kept exact: the mean is sum[i] / n
Mean(embeddings) == [sum |-> VecSum(embeddings), n |-> Len(embeddings)]

----------------------------------------------------------------------------
(* point ids *)

IdCode(file_id) ==
    CASE file_id = "f1" -> 1 [] file_id = "f2" -> 2 [] file_id = "f3" -> 3
      [] file_id = "f4" -> 4 [] OTHER -> 0

HashSeeds == {1, 2}

\* Python's hash(str): fixed within a process, signed
Hash(seed, file_id) ==
    ((IdCode(file_id) * (2 * seed + 1) + seed) % (2 * HashRange + 1)) - HashRange

Abs(n) == IF n < 0 THEN 0 - n ELSE n

PointId(seed, file_id) == Abs(Hash(seed, file_id)) % PointIdMod

\* an upsert that always inserts
Upsert_insert(pts, p) == Append(pts, p)

\* qdrant_client.upsert of one point: overwrite the point of that id, or insert
Upsert(pts, p) ==
    IF \E i \in DOMAIN pts : pts[i].id = p.id
    THEN [i \in DOMAIN pts |-> IF pts[i].id = p.id THEN p ELSE pts[i]]
    ELSE Append(pts, p)

----------------------------------------------------------------------------
(* search_qdrant *)

\* what qdrant returns for a stored point (with_vectors is off by default)
ScoredPoint(p) == [id |-> p.id, payload |-> p.payload]

\* qdrant_client.search with limit k: the k best matches, in the order of the
\* store's scoring, or a failure
SearchOutcomes(pts, k) ==
    {[ok |-> FALSE, hits |-> <<>>]} \cup
    {[ok |-> TRUE, hits |-> h] :
        h \in Arrangements({ScoredPoint(pts[i]) : i \in DOMAIN pts}, Min(k, Len(pts)))}

\* search_qdrant without the test for the all-zero sentinel
search_qdrant_nocheck(query, top_k, embedOk, found) ==
    IF found.ok
    THEN [ret |-> found.hits, searchCalled |-> TRUE, limit |-> top_k, raised |-> FALSE]
    ELSE [ret |-> <<>>, searchCalled |-> TRUE, limit |-> top_k, raised |-> FALSE]

\* embedOk: the embedding call returned; found: the outcome of the store's
\* search, used only when the search is called
search_qdrant(query, top_k, embedOk, found) ==
    LET query_embedding == get_embedding(query, embedOk)
    IN  IF AllZero(query_embedding)
        THEN [ret |-> <<>>, searchCalled |-> FALSE, limit |-> top_k, raised |-> FALSE]
        ELSE IF found.ok
        THEN [ret |-> found.hits, searchCalled |-> TRUE, limit |-> top_k, raised |-> FALSE]
        ELSE [ret |-> <<>>, searchCalled |-> TRUE, limit |-> top_k, raised |-> FALSE]

----------------------------------------------------------------------------
(* generate_answer *)

FALLBACK == "Could not generate a clear answer."
ERROR_ANSWER == "An error occurred while generating the answer."

\* what model.generate_content does: it raises, or returns a response that
\* has a text or has none
ModelOutcomes ==
    {[kind |-> "raise"], [kind |-> "response", hasText |-> FALSE, text |-> <<>>]} \cup
    {[kind |-> "response", hasText |-> TRUE, text |-> t] :
        t \in {<<>>, Str(<<" ", "\n">>), Str(<<" ", "o", " ", "k", "\n">>)}}

\* generate_answer putting the whole context into the prompt
generate_answer_full(query, context, out) ==
    LET prompt == [context |-> context, question |-> query]
    IN  IF out.kind = "raise"
        THEN [kind |-> "error", ret |-> ERROR_ANSWER, text |-> <<>>,
              prompt |-> prompt, raised |-> FALSE]
        ELSE IF out.hasText /\ Strip(out.text) # <<>>
        THEN [kind |-> "text", ret |-> "", text |-> Strip(out.text),
              prompt |-> prompt, raised |-> FALSE]
        ELSE [kind |-> "fallback", ret |-> FALLBACK, text |-> <<>>,
              prompt |-> prompt, raised |-> FALSE]

\* the prompt is the fixed template with its two slots filled in
generate_answer(query, context, out) ==
    LET prompt == [context |-> Slice(context, 0, PROMPT_CONTEXT), question |-> query]
    IN  IF out.kind = "raise"
        THEN [kind |-> "error", ret |-> ERROR_ANSWER, text |-> <<>>,
              prompt |-> prompt, raised |-> FALSE]
        ELSE IF out.hasText /\ Strip(out.text) # <<>>
        THEN [kind |-> "text", ret |-> "", text |-> Strip(out.text),
              prompt |-> prompt, raised |-> FALSE]
        ELSE [kind |-> "fallback", ret |-> FALLBACK, text |-> <<>>,
              prompt |-> prompt, raised |-> FALSE]

\* "\n\n".join(prefix + name + ":\n" + content ...) of the front ends
RECURSIVE JoinContext(_, _, _)
JoinContext(results, prefix, sep) ==
    IF results = <<>> THEN <<>>
    ELSE LET r == Head(results)
             one == Cat(prefix, Cat(r.payload.name, Cat(sep, r.payload.content)))
         IN  IF Len(results) = 1 THEN one
             ELSE Cat(one, Cat(Str(<<"\n", "\n">>), JoinContext(Tail(results), prefix, sep)))

NoSearch == [ret |-> <<>>, searchCalled |-> FALSE, limit |-> 0, raised |-> FALSE]

NoAnswer == [kind |-> "none", ret |-> "", text |-> <<>>,
             prompt |-> [context |-> <<>>, question |-> <<>>], raised |-> FALSE]

\* no question asked yet
NoQuery == [asked |-> FALSE, query |-> <<>>, embedOk |-> FALSE, foundIds |-> <<>>,
            foundOk |-> FALSE, search |-> NoSearch, answer |-> NoAnswer]

\* one question: search, and an answer when there are results
Ask(query, prefix, sep, embedOk, found, out) ==
    LET s == search_qdrant(query, TOP_K, embedOk, found)
    IN  [asked |-> TRUE, query |-> query, embedOk |-> embedOk,
         foundIds |-> [k \in DOMAIN found.hits |-> found.hits[k].id],
         foundOk |-> found.ok, search |-> s,
         answer |-> IF s.ret = <<>> THEN NoAnswer
                    ELSE generate_answer(query, JoinContext(s.ret, prefix, sep), out)]

----------------------------------------------------------------------------
(* process_drive_files: one iteration of the loop over the listing *)

UNNAMED == Str(<<"u", "n", "n", "a", "m", "e", "d">>)

NoPoint == [id |-> -1]

\* an iteration that ends in a continue
Skipped(item, fetched, len) ==
    [log |-> [item |-> item, fetched |-> fetched, contentLen |-> len,
              embedCalls |-> 0, embedOks |-> 0, upsertCalled |-> FALSE,
              upserted |-> FALSE, pid |-> -1],
     point |-> NoPoint]

\* a size test that skips only empty content
SmallFile_empty(content) == TLen(content) = 0

\* len(content) < 20
SmallFile(content) == TLen(content) < MIN_CONTENT

\* fetchOk: the download succeeds; failing: the chunks whose embedding call
\* fails; upsertOk: the upsert succeeds
process_item(seed, item, fetchOk, failing, upsertOk) ==
    IF item.mimeType \notin allowed_types THEN Skipped(item, FALSE, 0)
    ELSE IF item.id = "" THEN Skipped(item, FALSE, 0)
    ELSE
    LET file_name == IF item.named THEN item.name ELSE UNNAMED
        content == read_file(item.id, item.mimeType, fetchOk).content
    IN  IF SmallFile(content) THEN Skipped(item, TRUE, TLen(content))
        ELSE
        LET chunks == chunk_text(content, DEFAULT_MAX_CHARS)
            embeddings == [k \in DOMAIN chunks |-> get_embedding(chunks[k], k \notin failing)]
        IN  IF embeddings = <<>> THEN Skipped(item, TRUE, TLen(content))
            ELSE
            LET point_id == PointId(seed, item.id)
                point == [id |-> point_id, vector |-> Mean(embeddings),
                          payload |-> [name |-> file_name,
                                       content |-> Slice(content, 0, SNIPPET)]]
            IN  [log |-> [item |-> item, fetched |-> TRUE, contentLen |-> TLen(content),
                          embedCalls |-> Len(chunks),
                          embedOks |-> Cardinality(DOMAIN chunks \ failing),
                          upsertCalled |-> TRUE, upserted |-> upsertOk,
                          pid |-> point_id],
                 point |-> point]

\* the number of embedding calls the iteration for item makes
NumChunks(item, fetchOk) ==
    process_item(1, item, fetchOk, {}, TRUE).log.embedCalls

----------------------------------------------------------------------------
(* State *)

constVars == <<frontend, hashSeed, listing>>
\* what the indexing pass and the questions leave alone
setupVars == <<drive_service, qdrant_client, gemini_configured>>
webVars == <<session_state, page, trigger, text>>
storeVars == <<clients, points>>
logVars == <<fileLog, upsertLog>>
fnVars == <<fnIn, fnOut>>

NoClient == 0

NoPass == [num |-> 0, status |-> "none", raisedAt |-> "", items |-> <<>>,
           idx |-> 0, client |-> NoClient]

NoInput == [kind |-> "none", line |-> <<>>, interrupted |-> FALSE]

EmptySession == [k \in {} |-> FALSE]

Init ==
    /\ frontend \in {"cli", "web"}
    /\ pc = IF frontend = "cli" THEN "main" ELSE "w_idle"
    /\ hashSeed \in HashSeeds
    /\ listing \in Listings
    /\ drive_service = None
    /\ qdrant_client = NoClient
    /\ session_state = EmptySession
    /\ gemini_configured = FALSE
    /\ clients = 0
    /\ points = <<>>
    /\ pass = NoPass
    /\ fileLog = {}
    /\ upsertLog = {}
    /\ lastQuery = NoQuery
    /\ lastInput = NoInput
    /\ page = "none"
    /\ trigger = "none"
    /\ text = <<>>
    /\ fnIn = <<>>
    /\ fnOut = <<>>

----------------------------------------------------------------------------
(* process_drive_files, called by either front end *)

\* the call: the pass starts with the request for the listing
CallPass(client) ==
    [num |-> pass.num + 1, status |-> "listing", raisedAt |-> "", items |-> <<>>,
     idx |-> 0, client |-> client]

\* the outer except re-raises; main has no handler, the web script shows the
\* error and stops the run
Raise(at) ==
    /\ pass' = [pass EXCEPT !.status = "raised", !.raisedAt = at]
    /\ IF frontend = "cli"
       THEN /\ pc' = "crashed"
            /\ UNCHANGED <<page, text, trigger>>
       ELSE /\ pc' = "w_idle"
            /\ page' = "blank"
            /\ text' = <<>>
            /\ trigger' = "none"

\* service.files().list(...).execute() and results.get("files", [])
ListFiles ==
    /\ pc \in {"c_index", "w_index"}
    /\ pass.status = "listing"
    /\ \E ok \in BOOLEAN :
        IF ok
        THEN /\ pass' = [pass EXCEPT !.status = "running", !.items = listing, !.idx = 1]
             /\ UNCHANGED <<pc, page, text, trigger>>
        ELSE Raise("list")
    /\ UNCHANGED <<constVars, setupVars, session_state, storeVars,
                   logVars, lastQuery, lastInput, fnVars>>

\* one iteration of the for loop
ProcessFile ==
    /\ pc \in {"c_index", "w_index"}
    /\ pass.status = "running"
    /\ pass.idx <= Len(pass.items)
    /\ LET item == pass.items[pass.idx] IN
       \E fetchOk \in BOOLEAN, upsertOk \in BOOLEAN :
       \E failing \in SUBSET (1..NumChunks(item, fetchOk)) :
         LET r == process_item(hashSeed, item, fetchOk, failing, upsertOk) IN
         /\ fileLog' = fileLog \cup
              {[pass |-> pass.num, client |-> pass.client, idx |-> pass.idx,
                item |-> r.log.item, fetched |-> r.log.fetched,
                contentLen |-> r.log.contentLen, embedCalls |-> r.log.embedCalls,
                embedOks |-> r.log.embedOks, upsertCalled |-> r.log.upsertCalled,
                upserted |-> r.log.upserted, pid |-> r.log.pid]}
         /\ IF r.log.upsertCalled /\ ~r.log.upserted
            THEN /\ Raise("upsert")
                 /\ UNCHANGED <<points, upsertLog>>
            ELSE /\ pass' = [pass EXCEPT !.idx = pass.idx + 1]
                 /\ IF r.log.upserted
                    THEN /\ points' = Upsert(points, r.point)
                         /\ upsertLog' = upsertLog \cup
                              {[pass |-> pass.num, client |-> pass.client,
                                file_id |-> item.id, pid |-> r.log.pid]}
                    ELSE UNCHANGED <<points, upsertLog>>
                 /\ UNCHANGED <<pc, page, text, trigger>>
    /\ UNCHANGED <<constVars, setupVars, session_state, clients,
                   lastQuery, lastInput, fnVars>>

\* the loop is over: process_drive_files returns to its caller
FinishPass ==
    /\ pc \in {"c_index", "w_index"}
    /\ pass.status = "running"
    /\ pass.idx > Len(pass.items)
    /\ pass' = [pass EXCEPT !.status = "returned"]
    /\ fileLog' = {}
    /\ IF frontend = "cli"
       THEN /\ pc' = "c_loop"
            /\ UNCHANGED session_state
       ELSE /\ pc' = "w_search"
            /\ session_state' = [session_state EXCEPT !["files_indexed"] = TRUE]
    /\ UNCHANGED <<constVars, setupVars, page, trigger, text, storeVars,
                   upsertLog, lastQuery, lastInput, fnVars>>

----------------------------------------------------------------------------
(* app.main *)

\* authenticate_gdrive returns the service, or None on any error
CliAuthenticate ==
    /\ pc = "main"
    /\ \E ok \in BOOLEAN :
        IF ok
        THEN drive_service' = "service" /\ pc' = "c_qdrant"
        ELSE drive_service' = None /\ pc' = "ret_auth"
    /\ UNCHANGED <<constVars, qdrant_client, gemini_configured, webVars, storeVars,
                   pass, logVars, lastQuery, lastInput, fnVars>>

\* init_qdrant: a new in-memory client with an empty collection
CliInitQdrant ==
    /\ pc = "c_qdrant"
    /\ clients' = clients + 1
    /\ points' = <<>>
    /\ upsertLog' = {}
    /\ qdrant_client' = clients + 1
    /\ pc' = "c_gemini"
    /\ UNCHANGED <<constVars, drive_service, gemini_configured, webVars, pass,
                   fileLog, lastQuery, lastInput, fnVars>>

\* init_gemini raises when the API key is missing; main then returns,
\* otherwise it calls process_drive_files
CliInitGemini ==
    /\ pc = "c_gemini"
    /\ \E ok \in BOOLEAN :
        IF ok
        THEN /\ gemini_configured' = TRUE
             /\ pc' = "c_index"
             /\ pass' = CallPass(qdrant_client)
        ELSE /\ pc' = "ret_gemini"
             /\ UNCHANGED <<gemini_configured, pass>>
    /\ UNCHANGED <<constVars, drive_service, qdrant_client, webVars, storeVars, logVars, lastQuery,
                   lastInput, fnVars>>

QUIT == Str(<<"q", "u", "i", "t">>)
EXIT == Str(<<"e", "x", "i", "t">>)

Questions == {Str(<<"h", "i", "?">>)}

\* what input() can produce: a line, Ctrl-C, or an error such as EOFError
\* interrupted: Ctrl-C arrives while the line is being handled
Inputs ==
    {[kind |-> "line", line |-> l, interrupted |-> FALSE] :
        l \in {QUIT, Str(<<" ", "E", "x", "i", "T", " ">>), Str(<<" ">>),
               Str(<<" ", "h", "i", "?">>)}} \cup
    {[kind |-> "line", line |-> Str(<<"h", "i", "?">>), interrupted |-> TRUE],
     [kind |-> "KeyboardInterrupt", line |-> <<>>, interrupted |-> TRUE],
     [kind |-> "EOFError", line |-> <<>>, interrupted |-> FALSE]}

CLI_PREFIX == Str(<<"F", "r", "o", "m", " ">>)
CLI_SEP == Str(<<":", "\n">>)

\* a loop body without the except Exception clause
LoopBody_nocatch(inp) ==
    IF inp.kind = "KeyboardInterrupt" THEN "goodbye"
    ELSE IF inp.kind = "EOFError" THEN "crashed"
    ELSE
    LET query == Strip(inp.line)
    IN  IF Lower(query) \in {QUIT, EXIT} THEN "goodbye"
        ELSE IF query = <<>> THEN "c_loop"
        ELSE IF inp.interrupted THEN "goodbye"
        ELSE "c_loop"

\* where one pass through the body of the while loop ends: "goodbye" after a
\* break, "c_loop" when the loop goes round
LoopBody(inp) ==
    IF inp.kind = "KeyboardInterrupt" THEN "goodbye"
    ELSE IF inp.kind = "EOFError" THEN "c_loop"
    ELSE
    LET query == Strip(inp.line)
    IN  IF Lower(query) \in {QUIT, EXIT} THEN "goodbye"
        ELSE IF query = <<>> THEN "c_loop"
        ELSE IF inp.interrupted THEN "goodbye"
        ELSE "c_loop"

\* one pass through the body of the while loop
CliQuery ==
    /\ pc = "c_loop"
    /\ \E inp \in Inputs :
        LET query == Strip(inp.line)
            asks == /\ inp.kind = "line"
                    /\ Lower(query) \notin {QUIT, EXIT}
                    /\ query # <<>>
                    /\ ~inp.interrupted
        IN  /\ lastInput' = inp
            /\ IF asks
               THEN \E embedOk \in BOOLEAN, out \in ModelOutcomes :
                    \E found \in SearchOutcomes(points, TOP_K) :
                      lastQuery' = Ask(query, CLI_PREFIX, CLI_SEP, embedOk, found, out)
               ELSE lastQuery' = NoQuery
            /\ pc' = LoopBody(inp)
    /\ UNCHANGED <<constVars, setupVars, webVars, storeVars, pass, logVars, fnVars>>

----------------------------------------------------------------------------
(* streamlist.py: the script runs top to bottom on every interaction *)

SessionKeys == {"is_authenticated", "drive_service", "qdrant_client",
                "gemini_initialized", "files_indexed"}

SessionDefault(k) ==
    CASE k = "is_authenticated" -> FALSE
      [] k = "drive_service" -> None
      [] k = "qdrant_client" -> NoClient
      [] k = "gemini_initialized" -> FALSE
      [] OTHER -> FALSE

\* lines 15-24: every key that is absent gets its default
InitSession(ss) ==
    [k \in SessionKeys |-> IF k \in DOMAIN ss THEN ss[k] ELSE SessionDefault(k)]

\* a logout that forgets files_indexed
keys_to_clear_partial == {"is_authenticated", "drive_service", "qdrant_client",
                          "gemini_initialized"}

keys_to_clear == {"is_authenticated", "drive_service", "qdrant_client",
                  "gemini_initialized", "files_indexed"}

\* st.session_state.pop(key, None) for every key of keys
Pop(ss, keys) == [k \in DOMAIN ss \ keys |-> ss[k]]

\* the interactions the rendered page offers; "rerun" is the menu's Rerun
Triggers ==
    {"rerun"} \cup (IF page = "login" THEN {"login"} ELSE {})
              \cup (IF page = "search" THEN {"text", "logout"} ELSE {})

\* a run that takes the branch of line 27: the login section
WebLoginRun ==
    /\ pc = "w_idle"
    /\ LET ss == InitSession(session_state) IN
       /\ ~ss["is_authenticated"]
       /\ \E trg \in Triggers, ok \in BOOLEAN :
            /\ trigger' = "none"
            /\ session_state' =
                 IF trg = "login" /\ ok
                 THEN [ss EXCEPT !["drive_service"] = "service",
                                 !["is_authenticated"] = TRUE]
                 ELSE ss
    /\ page' = "login"
    /\ text' = <<>>
    /\ UNCHANGED <<pc, constVars, setupVars, storeVars, pass, logVars, lastQuery,
                   lastInput, fnVars>>

\* lines 43-53 without the st.stop() after a failed init_gemini
AfterInit_nostop(ss, geminiOk) ==
    LET ss1 == IF ss["qdrant_client"] = NoClient
               THEN [ss EXCEPT !["qdrant_client"] = clients + 1] ELSE ss
    IN  IF ss1["gemini_initialized"]
        THEN [ss |-> ss1, stop |-> FALSE, configured |-> FALSE]
        ELSE IF geminiOk
        THEN [ss |-> [ss1 EXCEPT !["gemini_initialized"] = TRUE], stop |-> FALSE,
              configured |-> TRUE]
        ELSE [ss |-> ss1, stop |-> FALSE, configured |-> FALSE]

\* lines 43-53.  stop: init_gemini raised and st.stop() ended the run;
\* configured: init_gemini configured the model
AfterInit(ss, geminiOk) ==
    LET ss1 == IF ss["qdrant_client"] = NoClient
               THEN [ss EXCEPT !["qdrant_client"] = clients + 1] ELSE ss
    IN  IF ss1["gemini_initialized"]
        THEN [ss |-> ss1, stop |-> FALSE, configured |-> FALSE]
        ELSE IF geminiOk
        THEN [ss |-> [ss1 EXCEPT !["gemini_initialized"] = TRUE], stop |-> FALSE,
              configured |-> TRUE]
        ELSE [ss |-> ss1, stop |-> TRUE, configured |-> FALSE]

\* a run that takes the else branch of line 38, up to the search section
WebAppRun ==
    /\ pc = "w_idle"
    /\ LET ss == InitSession(session_state) IN
       /\ ss["is_authenticated"]
       /\ \E trg \in Triggers, typed \in Questions \cup {<<>>}, geminiOk \in BOOLEAN :
            LET r == AfterInit(ss, geminiOk)
                shown == IF page = "search" THEN text ELSE <<>>
            IN  /\ trigger' = IF r.stop THEN "none" ELSE trg
                /\ session_state' = r.ss
                /\ gemini_configured' = (gemini_configured \/ r.configured)
                /\ IF ss["qdrant_client"] = NoClient
                   THEN clients' = clients + 1 /\ points' = <<>> /\ upsertLog' = {}
                   ELSE UNCHANGED <<clients, points, upsertLog>>
                /\ IF r.stop
                   THEN /\ pc' = "w_idle"
                        /\ page' = "blank"
                        /\ text' = <<>>
                        /\ UNCHANGED pass
                   ELSE /\ page' = page
                        /\ text' = IF trg = "text" THEN typed ELSE shown
                        /\ IF r.ss["files_indexed"]
                           THEN pc' = "w_search" /\ UNCHANGED pass
                           ELSE /\ pass.num < MaxPasses
                                /\ pc' = "w_index"
                                /\ pass' = CallPass(r.ss["qdrant_client"])
    /\ fileLog' = {}
    /\ lastQuery' = NoQuery
    /\ UNCHANGED <<constVars, drive_service, qdrant_client, lastInput, fnVars>>

WEB_PREFIX == Str(<<"F", "i", "l", "e", ":", " ">>)
WEB_SEP == Str(<<"\n">>)

\* lines 66-85: the search section
WebSearch ==
    /\ pc = "w_search"
    /\ IF text # <<>>
       THEN \E embedOk \in BOOLEAN, out \in ModelOutcomes :
            \E found \in SearchOutcomes(points, TOP_K) :
              lastQuery' = Ask(text, WEB_PREFIX, WEB_SEP, embedOk, found, out)
       ELSE lastQuery' = NoQuery
    /\ pc' = "w_logout"
    /\ UNCHANGED <<constVars, setupVars, webVars, storeVars, pass, logVars,
                   lastInput, fnVars>>

\* lines 87-97: Logout was clicked; the keys are popped and the script is
\* run again, which renders the login section
WebLogout ==
    /\ pc = "w_logout"
    /\ trigger = "logout"
    /\ session_state' = InitSession(Pop(session_state, keys_to_clear))
    /\ page' = "login"
    /\ text' = <<>>
    /\ trigger' = "none"
    /\ lastQuery' = NoQuery
    /\ pc' = "w_idle"
    /\ UNCHANGED <<constVars, setupVars, storeVars, pass, logVars,
                   lastInput, fnVars>>

\* Logout was not clicked: the run ends with the search page rendered
WebRunEnd ==
    /\ pc = "w_logout"
    /\ trigger # "logout"
    /\ page' = "search"
    /\ trigger' = "none"
    /\ lastQuery' = NoQuery
    /\ pc' = "w_idle"
    /\ UNCHANGED <<constVars, setupVars, session_state, text,
                   storeVars, pass, logVars, lastInput, fnVars>>

----------------------------------------------------------------------------

Next ==
    \/ ListFiles
    \/ ProcessFile
    \/ FinishPass
    \/ CliAuthenticate
    \/ CliInitQdrant
    \/ CliInitGemini
    \/ CliQuery
    \/ WebLoginRun
    \/ WebAppRun
    \/ WebSearch
    \/ WebLogout
    \/ WebRunEnd

Spec == Init /\ [][Next]_vars

----------------------------------------------------------------------------
(* chunk_text and generate_answer applied on their own, to arguments drawn *)
(* from bounded sets                                                       *)

\* no front end is running
PipelineIdle ==
    /\ frontend = "fn"
    /\ hashSeed = 1
    /\ listing = <<>>
    /\ drive_service = None
    /\ qdrant_client = NoClient
    /\ session_state = EmptySession
    /\ gemini_configured = FALSE
    /\ clients = 0
    /\ points = <<>>
    /\ pass = NoPass
    /\ fileLog = {}
    /\ upsertLog = {}
    /\ lastQuery = NoQuery
    /\ lastInput = NoInput
    /\ page = "none"
    /\ trigger = "none"
    /\ text = <<>>

pipelineVars == <<constVars, setupVars, webVars, storeVars, pass, logVars,
                  lastQuery, lastInput>>

Texts == {Str(q) : q \in UNION {[1..n -> {"a", "b"}] : n \in 0..MaxTextLen}}

InitChunk ==
    /\ PipelineIdle
    /\ pc = "chunk_call"
    /\ fnIn \in [text : Texts, max_chars : 1..MaxChunkSize]
    /\ fnOut = <<>>

ChunkCall ==
    /\ pc = "chunk_call"
    /\ fnOut' = chunk_text(fnIn.text, fnIn.max_chars)
    /\ pc' = "chunk_done"
    /\ UNCHANGED <<fnIn, pipelineVars>>

NextChunk == ChunkCall

SpecChunk == InitChunk /\ [][NextChunk]_vars

\* contexts of n characters, the characters past PROMPT_CONTEXT marked "y"
ContextOf(n) ==
    Cat(Rep("x", Min(n, PROMPT_CONTEXT)), Rep("y", n - Min(n, PROMPT_CONTEXT)))

Contexts ==
    {ContextOf(n) : n \in {0, 1} \cup ((PROMPT_CONTEXT - 1)..(PROMPT_CONTEXT + ContextSlack))}

InitAnswer ==
    /\ PipelineIdle
    /\ pc = "answer_call"
    /\ fnIn \in [query : Questions \cup {<<>>, QUIT}, context : Contexts,
                 out : ModelOutcomes]
    /\ fnOut = <<>>

AnswerCall ==
    /\ pc = "answer_call"
    /\ fnOut' = generate_answer(fnIn.query, fnIn.context, fnIn.out)
    /\ pc' = "answer_done"
    /\ UNCHANGED <<fnIn, pipelineVars>>

NextAnswer == AnswerCall

SpecAnswer == InitAnswer /\ [][NextAnswer]_vars

----------------------------------------------------------------------------
(* Properties *)

\* C1: for every text T and maximum size M > 0, the chunks chunk_text(T, M)
\* returns concatenate, in order, to exactly T, each chunk has at most M
\* characters, and there are ceil(len(T) / M) of them (none for the empty T).
C1_ChunksCoverText ==
    pc = "chunk_done" =>
        /\ Concat(fnOut) = fnIn.text
        /\ \A k \in DOMAIN fnOut : TLen(fnOut[k]) <= fnIn.max_chars
        /\ Len(fnOut) = (TLen(fnIn.text) + fnIn.max_chars - 1) \div fnIn.max_chars
        /\ (fnIn.text = <<>> => fnOut = <<>>)

\* a text cut into several chunks, the last one shorter than the others
C1_Witness ==
    /\ pc = "chunk_done"
    /\ Len(fnOut) >= 2
    /\ TLen(fnOut[Len(fnOut)]) < fnIn.max_chars
    /\ fnIn.max_chars >= 2

\* C2: in an indexing pass a file whose content type is not in the allow-list
\* is never fetched, and a file whose fetched content has fewer than 20
\* characters (the empty content of a failed fetch included) is never embedded
\* and never upserted.
C2_SkipRules ==
    \A r \in fileLog :
        /\ r.item.mimeType \notin allowed_types => ~r.fetched
        /\ r.contentLen < MIN_CONTENT => r.embedCalls = 0 /\ ~r.upsertCalled

\* one pass met a file of an unsupported type and a fetched file of fewer than
\* 20 characters
C2_Witness ==
    /\ \E r \in fileLog : r.item.mimeType \notin allowed_types /\ ~r.fetched
    /\ \E r \in fileLog : r.fetched /\ r.contentLen > 0 /\ r.contentLen < MIN_CONTENT

\* C3: a file with zero successful chunk embeddings (the embedding service
\* failed on every call) is never upserted into the vector store.
C3_NoEmbeddingNoUpsert ==
    \A r \in fileLog : r.embedOks = 0 => ~r.upsertCalled

\* C4: a failure in a single step of one file (fetch, embed or upsert) never
\* makes the pass raise: the pass raises only when the listing itself fails.
C4_FileFailureContained ==
    pass.status = "raised" => pass.raisedAt = "list"

HitIds(hits) == [k \in DOMAIN hits |-> hits[k].id]

\* C6: search_qdrant never raises; when embedding the query fails it returns
\* the empty sequence without calling the store's search, when the store's
\* search fails it returns the empty sequence, and otherwise it returns the
\* store's matches of a search limited to K = 3.
C6_SearchContained ==
    lastQuery.asked =>
        LET s == lastQuery.search IN
        /\ ~s.raised
        /\ ~lastQuery.embedOk => s.ret = <<>> /\ ~s.searchCalled
        /\ lastQuery.embedOk /\ ~lastQuery.foundOk => s.ret = <<>> /\ s.searchCalled
        /\ lastQuery.embedOk /\ lastQuery.foundOk =>
              /\ s.searchCalled
              /\ s.limit = TOP_K
              /\ Len(s.ret) <= TOP_K
              /\ HitIds(s.ret) = lastQuery.foundIds
              /\ \A k \in DOMAIN s.ret :
                    \E i \in DOMAIN points : s.ret[k] = ScoredPoint(points[i])

\* a question whose embedding failed, asked of a store that holds points
C6_Witness ==
    /\ lastQuery.asked
    /\ ~lastQuery.embedOk
    /\ points # <<>>

HasVisibleChar(t) == \E i \in DOMAIN t : t[i].c \notin Whitespace

\* C7: generate_answer never raises and returns the trimmed model text when
\* the model returns non-empty text, the fixed fallback string when the model
\* returns empty or whitespace-only output, or the fixed error string when the
\* model call fails; the prompt holds at most the first 8000 characters of the
\* context.
C7_AnswerOutcomes ==
    pc = "answer_done" =>
        /\ ~fnOut.raised
        /\ fnIn.out.kind = "raise" =>
              fnOut.kind = "error" /\ fnOut.ret = ERROR_ANSWER
        /\ fnIn.out.kind = "response" /\ fnIn.out.hasText /\ HasVisibleChar(fnIn.out.text) =>
              /\ fnOut.kind = "text"
              /\ fnOut.text = Strip(fnIn.out.text)
              /\ Head(fnOut.text).c \notin Whitespace
              /\ fnOut.text[Len(fnOut.text)].c \notin Whitespace
        /\ fnIn.out.kind = "response" /\ ~(fnIn.out.hasText /\ HasVisibleChar(fnIn.out.text)) =>
              fnOut.kind = "fallback" /\ fnOut.ret = FALLBACK
        /\ TLen(fnOut.prompt.context) = Min(TLen(fnIn.context), PROMPT_CONTEXT)
        /\ fnOut.prompt.context = Take(fnIn.context, TLen(fnOut.prompt.context))
        /\ fnOut.prompt.question = fnIn.query

\* an answer for a context longer than 8000 characters
C7_Witness ==
    /\ pc = "answer_done"
    /\ TLen(fnIn.context) > PROMPT_CONTEXT
    /\ fnOut.kind = "text"

IsQuit(inp) == inp.kind = "line" /\ Lower(Strip(inp.line)) \in {QUIT, EXIT}

IsInterrupt(inp) == inp.kind = "KeyboardInterrupt" \/ (inp.kind = "line" /\ inp.interrupted)

\* C8: the question loop ends only by a clean exit, on the quit command or on
\* an interrupt; any other error while handling a question (an error while
\* reading the input included) leaves the loop prompting for the next question.
C8_LoopExits ==
    [][pc = "c_loop" =>
        /\ pc' \in {"c_loop", "goodbye"}
        /\ pc' = "goodbye" <=> (IsQuit(lastInput') \/ IsInterrupt(lastInput'))
        /\ lastInput'.kind = "EOFError" => pc' = "c_loop"]_vars

\* input() raised an error and the loop prompts again
C8_Witness ==
    /\ pc = "c_loop"
    /\ lastInput.kind = "EOFError"

Authenticated ==
    IF frontend = "cli" THEN drive_service = "service"
    ELSE /\ "is_authenticated" \in DOMAIN session_state
         /\ session_state["is_authenticated"]
         /\ session_state["drive_service"] = "service"

\* C9: no indexing pass and no query runs unless Drive authentication and the
\* model initialisation have succeeded; the web front end runs a query only
\* with is_authenticated, qdrant_client, gemini_initialized and files_indexed
\* all set, and an indexing pass that raised leaves files_indexed false.
C9_PreconditionsHold ==
    /\ (pass.status \in {"listing", "running"} \/ lastQuery.asked \/ pc = "w_search") =>
            Authenticated /\ gemini_configured
    /\ (frontend = "web" /\ (lastQuery.asked \/ pc = "w_search")) =>
            /\ session_state["is_authenticated"]
            /\ session_state["qdrant_client"] # NoClient
            /\ session_state["gemini_initialized"]
            /\ session_state["files_indexed"]
    /\ (frontend = "web" /\ pass.status = "raised" /\ pc = "w_idle"
            /\ "files_indexed" \in DOMAIN session_state) =>
            ~session_state["files_indexed"]
    /\ pc \in {"ret_auth", "ret_gemini"} => pass.num = 0 /\ ~lastQuery.asked

\* the web front end ran a query after an earlier pass had raised
C9_Witness ==
    /\ frontend = "web"
    /\ lastQuery.asked
    /\ pass.num >= 2

InitialSession == [k \in SessionKeys |-> SessionDefault(k)]

\* C10: the logout action leaves is_authenticated, drive_service,
\* qdrant_client, gemini_initialized and files_indexed at their initial values.
C10_LogoutClears ==
    [][(pc = "w_logout" /\ trigger = "logout") =>
        /\ session_state'["is_authenticated"] = FALSE
        /\ session_state'["drive_service"] = None
        /\ session_state'["qdrant_client"] = NoClient
        /\ session_state'["gemini_initialized"] = FALSE
        /\ session_state'["files_indexed"] = FALSE]_vars

\* a session that was logged in and indexed is back at the initial values
C10_Witness ==
    /\ frontend = "web"
    /\ clients >= 1
    /\ pass.status = "returned"
    /\ session_state = InitialSession

====
